---- MODULE Spec2Model ----
\* A model of tev's PFM image loader (src/imageio/PfmImageLoader.cpp):
\*   - PfmImageLoader::canLoadFile, the two-byte format sniff;
\*   - PfmImageLoader::load, header parse and validation, payload read,
\*     the row-parallel scatter with vertical flip, and channel selection;
\*   - the flat index arithmetic of the row body at its real 32/64-bit widths.
EXTENDS Integers, Sequences, FiniteSets, TLC

VARIABLES
    iStream,          \* canLoadFile's stream: [bytes, pos, state]
    pre,              \* position and flags of iStream when canLoadFile was called
    sniff,            \* [called, result, gcount] of canLoadFile
    file,             \* load's stream content: [magic, width, height, scale, tail]
    hostLE,           \* isSystemLittleEndian()
    channelSelector,  \* load's channelSelector argument
    pc,               \* position inside load / the index probe
    err,              \* [kind, read, expected]: the exception load threw, if any
    hdr,              \* locals of load: magic, size, scale, numChannels, isPfmLittleEndian
    rd,               \* load's stream state: [state, pos, gcount]
    data,             \* vector<float> data, as a sequence of 4-byte samples
    channels,         \* vector<Channel> channels: [name, at]
    writers,          \* per channel cell, the rows that wrote it, in order
    row,              \* per row task of parallelFor, the number of samples done
    fuzzy,            \* what matchesFuzzy answered for each channel
    result,           \* [returned, channels, layers, hasPremultipliedAlpha]
    probe             \* the row body evaluated at one (y, x, c) of a large image

vars == <<iStream, pre, sniff, file, hostLE, channelSelector, pc, err, hdr, rd,
          data, channels, writers, row, fuzzy, result, probe>>

sniffVars == <<iStream, pre, sniff>>
loadVars  == <<file, hostLE, channelSelector, err, hdr, rd, data, channels,
               writers, row, fuzzy, result>>

-----------------------------------------------------------------------------
\* Bounds of the model.

MaxSniffLen == 3      \* longest stream handed to canLoadFile
MaxWidth    == 2      \* |width| of the headers handed to load
MaxHeight   == 2      \* |height| of the headers handed to load
MaxRank     == 1      \* largest match rank matchesFuzzy answers

-----------------------------------------------------------------------------
\* Generic helpers.

Min(a, b) == IF a < b THEN a ELSE b

Abs(n) == IF n < 0 THEN -n ELSE n

RECURSIVE SeqsUpTo(_, _)
SeqsUpTo(S, n) ==
    IF n = 0 THEN {<<>>}
    ELSE LET shorter == SeqsUpTo(S, n - 1)
         IN  shorter \cup {Append(s, e) : s \in {t \in shorter : Len(t) = n - 1}, e \in S}

-----------------------------------------------------------------------------
\* std::ios_base::iostate and the unformatted input functions of std::istream
\* on a seekable stream whose exception mask is empty (the default).

goodbit == {}

Good(state) == state = goodbit

Fail(state) == state \cap {"failbit", "badbit"} # {}

\* istream::read(buf, n): the sentry fails on a stream that is not good();
\* otherwise min(n, available) bytes are stored and a short read sets
\* eofbit | failbit.
StreamRead(s, n) ==
    IF ~Good(s.state)
    THEN [bytes |-> s.bytes, pos |-> s.pos, state |-> s.state \cup {"failbit"},
          gcount |-> 0, buf |-> <<>>]
    ELSE LET got == Min(n, Len(s.bytes) - s.pos)
         IN  [bytes |-> s.bytes, pos |-> s.pos + got,
              state |-> IF got < n THEN {"eofbit", "failbit"} ELSE goodbit,
              gcount |-> got,
              buf |-> SubSeq(s.bytes, s.pos + 1, s.pos + got)]

\* istream::clear()
StreamClear(s) == [s EXCEPT !.state = goodbit]

\* istream::seekg(0): clears eofbit, then repositions unless fail().
StreamSeekg0(s) ==
    LET st == s.state \ {"eofbit"}
    IN  IF Fail(st) THEN [s EXCEPT !.state = st]
        ELSE [s EXCEPT !.state = st, !.pos = 0]

-----------------------------------------------------------------------------
\* PfmImageLoader::canLoadFile

SniffChars == {"P", "F", "f", "x"}

IosFlags == {"eofbit", "failbit", "badbit"}

NoSniff == [called |-> FALSE, result |-> FALSE, gcount |-> 0]

SniffResultUpperOnly(r) ==
    /\ ~Fail(r.state)
    /\ r.gcount = 2
    /\ r.buf[1] = "P"
    /\ r.buf[2] = "F"

\* bool result = !!iStream && iStream.gcount() == sizeof(b) && b[0] == 'P' && ...
SniffResult(r) ==
    /\ ~Fail(r.state)
    /\ r.gcount = 2
    /\ r.buf[1] = "P"
    /\ (r.buf[2] = "F" \/ r.buf[2] = "f")

SniffRestoreNoClear(r) == StreamSeekg0(r)

\* iStream.clear(); iStream.seekg(0);
SniffRestore(r) == StreamSeekg0(StreamClear(r))

canLoadFile ==
    /\ pc = "sniff"
    /\ LET r == StreamRead(iStream, 2)
           s == SniffRestore(r)
       IN  /\ iStream' = [bytes |-> s.bytes, pos |-> s.pos, state |-> s.state]
           /\ sniff' = [called |-> TRUE, result |-> SniffResult(r), gcount |-> r.gcount]
    /\ pc' = "sniffed"
    /\ UNCHANGED <<pre, probe>>
    /\ UNCHANGED loadVars

-----------------------------------------------------------------------------
\* Arithmetic of the row body at the machine's widths.  A natural number is a
\* little-endian sequence of base-256 digits; int is 32 bits and
\* Eigen::DenseIndex (std::ptrdiff_t) is 64 bits.

RECURSIVE Digits(_)
Digits(n) == IF n = 0 THEN <<>> ELSE <<n % 256>> \o Digits(n \div 256)

DigitAt(a, i) == IF i <= Len(a) THEN a[i] ELSE 0

RECURSIVE Trim(_)
Trim(a) ==
    IF a = <<>> THEN a
    ELSE IF a[Len(a)] = 0 THEN Trim(SubSeq(a, 1, Len(a) - 1)) ELSE a

RECURSIVE AddFrom(_, _, _, _)
AddFrom(a, b, i, carry) ==
    IF i > Len(a) /\ i > Len(b)
    THEN (IF carry = 0 THEN <<>> ELSE <<carry>>)
    ELSE LET t == DigitAt(a, i) + DigitAt(b, i) + carry
         IN  <<t % 256>> \o AddFrom(a, b, i + 1, t \div 256)

BigAdd(a, b) == Trim(AddFrom(a, b, 1, 0))

RECURSIVE MulDigitFrom(_, _, _, _)
MulDigitFrom(a, d, i, carry) ==
    IF i > Len(a)
    THEN (IF carry = 0 THEN <<>> ELSE <<carry>>)
    ELSE LET t == a[i] * d + carry
         IN  <<t % 256>> \o MulDigitFrom(a, d, i + 1, t \div 256)

RECURSIVE BigMul(_, _)
BigMul(a, b) ==
    IF b = <<>> THEN <<>>
    ELSE LET rest == BigMul(a, Tail(b))
         IN  BigAdd(Trim(MulDigitFrom(a, b[1], 1, 0)),
                    IF rest = <<>> THEN <<>> ELSE <<0>> \o rest)

RECURSIVE BigLessFrom(_, _, _)
BigLessFrom(a, b, i) ==
    IF i = 0 THEN FALSE
    ELSE IF DigitAt(a, i) # DigitAt(b, i) THEN DigitAt(a, i) < DigitAt(b, i)
    ELSE BigLessFrom(a, b, i - 1)

BigLess(a, b) == BigLessFrom(a, b, IF Len(a) > Len(b) THEN Len(a) ELSE Len(b))

\* The low `bytes` bytes of a: conversion to a `bytes`-byte unsigned integer.
Wrap(a, bytes) == Trim(SubSeq(a, 1, Min(Len(a), bytes)))

\* Conversion of a non-negative 64-bit value to int: the low 32 bits read as
\* two's complement.  The result lies in -2^31 .. 2^31 - 1.
ToInt32(a) ==
    LET low31 == DigitAt(a, 1) + 256 * DigitAt(a, 2) + 65536 * DigitAt(a, 3)
                 + 16777216 * (DigitAt(a, 4) % 128)
    IN  IF DigitAt(a, 4) >= 128 THEN (low31 - 2147483647) - 1 ELSE low31

BaseIdxWide(y, x, sizeX, numChannels) ==
    BigMul(BigAdd(BigMul(Digits(y), Digits(sizeX)), Digits(x)), Digits(numChannels))

\* int baseIdx = (y * size.x() + x) * numChannels;  y is a DenseIndex, so the
\* product is formed in 64 bits and then converted to int.
BaseIdx(y, x, sizeX, numChannels) ==
    ToInt32(Wrap(BaseIdxWide(y, x, sizeX, numChannels), 8))

-----------------------------------------------------------------------------
\* float values.  A scale is [cls, sgn, mag]; a sample is the 4 bytes of its
\* object representation in address order; a decoded cell is the product
\* [mul, bits] of a scale magnitude and the sample's bits, most significant
\* byte first.

FiniteMags == {"2.5"}

Fin(sgn, mag) == [cls |-> "finite", sgn |-> sgn, mag |-> mag]
Zero    == [cls |-> "finite", sgn |-> 0, mag |-> "0"]
NaN     == [cls |-> "nan", sgn |-> 0, mag |-> "nan"]
Inf(sgn) == [cls |-> "inf", sgn |-> sgn, mag |-> "inf"]
FltMax(sgn) == Fin(sgn, "FLT_MAX")

NonZeroScales == {Fin(s, m) : s \in {-1, 1}, m \in FiniteMags}

isfinite(s) == s.cls = "finite"

FloatAbs(s) == IF s.cls = "nan" THEN s ELSE [s EXCEPT !.sgn = Abs(s.sgn)]

Reverse4(b) == <<b[4], b[3], b[2], b[1]>>

swapBytes(val) == Reverse4(val)

\* The bits of a float whose object representation is val, on this host.
FloatBits(val, littleEndianHost) == IF littleEndianHost THEN Reverse4(val) ELSE val

ZeroCell == [mul |-> "0", bits |-> <<0, 0, 0, 0>>]

\* scale * val
Times(scale, val, littleEndianHost) ==
    [mul |-> scale.mag, bits |-> FloatBits(val, littleEndianHost)]

-----------------------------------------------------------------------------
\* The stream handed to load.  The header is held as the four fields that
\* operator>> extracts, each with the outcome of its extraction; tail is the
\* bytes that follow the scale field.

IntVal(n) == [k |-> "val", v |-> n]
IntBad    == [k |-> "bad", v |-> 0]     \* not a number: 0 is stored, failbit
IntEof    == [k |-> "eof", v |-> 0]     \* stream ended: nothing is stored

ScaleVal(s) == [k |-> "val", v |-> s]
ScaleBad    == [k |-> "bad", v |-> Zero]
ScaleEof    == [k |-> "eof", v |-> Zero]
ScaleOvf(sgn) == [k |-> "ovf", v |-> FltMax(sgn)]  \* out of float's range

MagicTokens == {"Pf", "PF", "PF4", "P6", "pf", ""}

WidthTokens  == {IntVal(n) : n \in -MaxWidth .. MaxWidth} \cup {IntBad, IntEof}
HeightTokens == {IntVal(n) : n \in -MaxHeight .. MaxHeight} \cup {IntBad, IntEof}

ScaleTokens ==
    {ScaleVal(s) : s \in NonZeroScales \cup {Zero, NaN, Inf(1), Inf(-1)}}
    \cup {ScaleBad, ScaleEof, ScaleOvf(1), ScaleOvf(-1)}

\* What an uninitialised int or float may hold.
UninitInts   == {-1, 0, 1}
UninitScales == {Fin(1, "2.5"), Fin(-1, "2.5"), Zero, NaN, Inf(1)}

CR == 13
LF == 10
SPACE == 32

\* operator>>(int&) on a stream whose state so far is good (ok) or not.
ExtractInt(tok, ok) ==
    IF ~ok \/ tok.k = "eof" THEN {[v |-> u, ok |-> FALSE] : u \in UninitInts}
    ELSE IF tok.k = "bad" THEN {[v |-> 0, ok |-> FALSE]}
    ELSE {[v |-> tok.v, ok |-> TRUE]}

\* operator>>(float&).  A field out of float's range stores the largest
\* finite value (libstdc++) or infinity (libc++) and sets failbit.
ExtractFloat(tok, ok) ==
    IF ~ok \/ tok.k = "eof" THEN {[v |-> u, ok |-> FALSE] : u \in UninitScales}
    ELSE IF tok.k = "bad" THEN {[v |-> Zero, ok |-> FALSE]}
    ELSE IF tok.k = "ovf" THEN {[v |-> tok.v, ok |-> FALSE],
                                [v |-> Inf(tok.v.sgn), ok |-> FALSE]}
    ELSE {[v |-> tok.v, ok |-> TRUE]}

\* iStream >> magic >> size.x() >> size.y() >> scale;
\* Once an extraction fails, the later ones store nothing.  eofbit alone is set
\* when the scale field runs to the end of the stream.
ParseHeader(f) ==
    UNION {UNION {{[magic |-> f.magic, x |-> w.v, y |-> h.v, scale |-> s.v,
                    state |-> IF s.ok
                              THEN (IF f.tail = <<>> THEN {"eofbit"} ELSE goodbit)
                              ELSE {"failbit"}] :
                      s \in ExtractFloat(f.scale, h.ok)} :
                  h \in ExtractInt(f.height, w.ok)} :
           w \in ExtractInt(f.width, f.magic # "")}

\* istream::get(c)
StreamGet(s) ==
    IF ~Good(s.state)
    THEN [s EXCEPT !.state = s.state \cup {"failbit"}, !.gcount = 0]
    ELSE IF s.pos >= Len(s.bytes)
    THEN [s EXCEPT !.state = {"eofbit", "failbit"}, !.gcount = 0]
    ELSE [s EXCEPT !.pos = s.pos + 1, !.gcount = 1]

\* while (iStream.get(c) && c != '\r' && c != '\n');
RECURSIVE SkipLine(_)
SkipLine(s) ==
    LET g == StreamGet(s)
    IN  IF Fail(g.state) THEN g
        ELSE IF g.bytes[g.pos] = CR \/ g.bytes[g.pos] = LF THEN g
        ELSE SkipLine(g)

-----------------------------------------------------------------------------
\* PfmImageLoader::load

NoErr == [kind |-> "none", read |-> 0, expected |-> 0]

InvalidFormat == [kind |-> "InvalidFormat", read |-> 0, expected |-> 0]

AllocFailure == [kind |-> "AllocFailure", read |-> 0, expected |-> 0]

TruncatedData(read, expected) ==
    [kind |-> "TruncatedData", read |-> read, expected |-> expected]

NoHdr == [magic |-> "", size |-> [x |-> 0, y |-> 0], scale |-> Zero,
          numChannels |-> 0, isPfmLittleEndian |-> FALSE, numPixels |-> 0]

NoRd == [bytes |-> <<>>, pos |-> 0, state |-> goodbit, gcount |-> 0]

NoResult == [returned |-> FALSE, channels |-> <<>>, layers |-> <<>>,
             hasPremultipliedAlpha |-> TRUE]

NoProbe == [done |-> FALSE, y |-> 0, x |-> 0, c |-> 0, baseIdx |-> 0,
            val |-> ZeroCell, numBytes |-> <<>>]

\* if (magic == "Pf") ... else if (magic == "PF") ... else if (magic == "PF4") ...
\* 0 stands for the throwing branch.
NumChannelsOf(magic) ==
    IF magic = "Pf" THEN 1
    ELSE IF magic = "PF" THEN 3
    ELSE IF magic = "PF4" THEN 4
    ELSE 0

BadScaleZeroOnly(scale) == scale.cls = "finite" /\ scale.sgn = 0

\* !isfinite(scale) || scale == 0
BadScale(scale) == ~isfinite(scale) \/ (scale.cls = "finite" /\ scale.sgn = 0)

IsPfmLittleEndianPositive(scale) == scale.cls # "nan" /\ scale.sgn > 0

\* bool isPfmLittleEndian = scale < 0;
IsPfmLittleEndian(scale) == scale.cls # "nan" /\ scale.sgn < 0

Cells(size) == (0 .. size.x - 1) \X (0 .. size.y - 1)

ChannelNames(n) ==
    IF n > 1 THEN SubSeq(<<"R", "G", "B", "A">>, 1, n) ELSE <<"L">>

\* ImageLoader::makeNChannels(numChannels, size)
makeNChannels(n, size) ==
    [c \in 1 .. n |-> [name |-> ChannelNames(n)[c],
                       at |-> [cell \in Cells(size) |-> ZeroCell]]]

\* auto numPixels = (DenseIndex)size.x() * size.y();  if (numPixels == 0) throw
ZeroPixels(numPixels) == numPixels = 0

\* Lines 25-56: parse the header, validate magic and scale, make the channels,
\* reject an image of zero pixels.
LoadHeader ==
    /\ pc = "load"
    /\ \E p \in ParseHeader(file) :
        LET numChannels == NumChannelsOf(p.magic)
            size        == [x |-> p.x, y |-> p.y]
            numPixels   == p.x * p.y
            h == [magic |-> p.magic, size |-> size, scale |-> p.scale,
                  numChannels |-> numChannels, isPfmLittleEndian |-> FALSE,
                  numPixels |-> 0]
        IN  /\ rd' = [bytes |-> file.tail, pos |-> 0, state |-> p.state, gcount |-> 0]
            /\ IF numChannels = 0
               THEN /\ hdr' = h
                    /\ err' = InvalidFormat
                    /\ pc' = "failed"
                    /\ UNCHANGED channels
               ELSE IF BadScale(p.scale)
               THEN /\ hdr' = h
                    /\ err' = InvalidFormat
                    /\ pc' = "failed"
                    /\ UNCHANGED channels
               ELSE /\ hdr' = [h EXCEPT !.isPfmLittleEndian = IsPfmLittleEndian(p.scale),
                                        !.scale = FloatAbs(p.scale),
                                        !.numPixels = numPixels]
                    /\ channels' = makeNChannels(numChannels, size)
                    /\ IF ZeroPixels(numPixels)
                       THEN err' = InvalidFormat /\ pc' = "failed"
                       ELSE err' = NoErr /\ pc' = "read"
    /\ UNCHANGED <<file, hostLE, channelSelector, data, writers, row, fuzzy, result, probe>>
    /\ UNCHANGED sniffVars

\* The floats that the bytes read into data.data() make up.
RECURSIVE Samples(_)
Samples(buf) ==
    IF Len(buf) < 4 THEN <<>>
    ELSE <<SubSeq(buf, 1, 4)>> \o Samples(SubSeq(buf, 5, Len(buf)))

\* const bool shallSwapBytes = isSystemLittleEndian() != isPfmLittleEndian;
ShallSwapBytes(littleEndianHost, isPfmLittleEndian) ==
    littleEndianHost # isPfmLittleEndian

\* if (iStream.gcount() < (streamsize)numBytes) throw
ShortRead(gcount, numBytes) == gcount < numBytes

\* Lines 58-73: skip to the end of the header line, allocate the sample
\* buffer, read the payload.  vector<float> data(numFloats) throws
\* std::length_error for a negative numFloats.
ReadPayload ==
    /\ pc = "read"
    /\ LET numFloats == hdr.numPixels * hdr.numChannels
           numBytes  == numFloats * 4
           skipped   == SkipLine(rd)
           r         == StreamRead(skipped, numBytes)
       IN  IF numFloats < 0
           THEN /\ rd' = skipped
                /\ err' = AllocFailure
                /\ pc' = "failed"
                /\ UNCHANGED <<data, row, writers>>
           ELSE /\ rd' = [bytes |-> r.bytes, pos |-> r.pos, state |-> r.state,
                          gcount |-> r.gcount]
                /\ IF ShortRead(r.gcount, numBytes)
                   THEN /\ err' = TruncatedData(r.gcount, numBytes)
                        /\ pc' = "failed"
                        /\ UNCHANGED <<data, row, writers>>
                   ELSE /\ err' = NoErr
                        /\ data' = Samples(r.buf)
                        /\ row' = [y \in 0 .. hdr.size.y - 1 |-> 0]
                        /\ writers' = [c \in 1 .. hdr.numChannels |->
                                         [cell \in Cells(hdr.size) |-> <<>>]]
                        /\ pc' = "decode"
    /\ UNCHANGED <<file, hostLE, channelSelector, hdr, channels, fuzzy, result, probe>>
    /\ UNCHANGED sniffVars

-----------------------------------------------------------------------------
\* The row body of the parallelFor (lines 76-90).

\* What an out-of-bounds read of the sample buffer may yield.
GarbageSamples == {<<0, 0, 0, 0>>, <<255, 254, 253, 252>>}

\* float val = data[idx];
ReadData(buf, idx) ==
    IF idx >= 0 /\ idx < Len(buf) THEN {buf[idx + 1]} ELSE GarbageSamples

\* if (shallSwapBytes) val = swapBytes(val);  ...  scale * val
Decoded(val, scale, littleEndianHost, isPfmLittleEndian) ==
    Times(scale,
          IF ShallSwapBytes(littleEndianHost, isPfmLittleEndian) THEN swapBytes(val) ELSE val,
          littleEndianHost)

FlipCellBottomRow(x, y, size) == <<x, size.y - 1>>

\* channels[c].at({x, size.y() - y - 1})
FlipCell(x, y, size) == <<x, size.y - y - 1>>

\* One iteration of the inner loop of row task y: sample (x, c) with
\* x = row[y] div numChannels and c = row[y] mod numChannels.
RowStep(y) ==
    /\ pc = "decode"
    /\ y \in DOMAIN row
    /\ row[y] < hdr.size.x * hdr.numChannels
    /\ LET x       == row[y] \div hdr.numChannels
           c       == row[y] % hdr.numChannels
           baseIdx == BaseIdx(y, x, hdr.size.x, hdr.numChannels)
           cell    == FlipCell(x, y, hdr.size)
       IN  \E val \in ReadData(data, baseIdx + c) :
             /\ channels' = [channels EXCEPT ![c + 1].at[cell] =
                               Decoded(val, hdr.scale, hostLE, hdr.isPfmLittleEndian)]
             /\ writers' = [writers EXCEPT ![c + 1][cell] = Append(@, y)]
    /\ row' = [row EXCEPT ![y] = @ + 1]
    /\ UNCHANGED <<file, hostLE, channelSelector, pc, err, hdr, rd, data, fuzzy,
                   result, probe>>
    /\ UNCHANGED sniffVars

\* ThreadPool::parallelFor(0, size.y(), body) returns once body(y) has run to
\* completion for every y in [0, size.y()).
ParallelForDone ==
    \A y \in DOMAIN row : row[y] = hdr.size.x * hdr.numChannels

-----------------------------------------------------------------------------
\* Channel selection (lines 93-115).

Selectors == {"", "G"}

NoMatch == [match |-> FALSE, id |-> 0]

\* matchesFuzzy(channels[i].name(), channelSelector, &matchId): an empty
\* selector matches every name; otherwise the answer is any function of the
\* channel.
FuzzyTables(n, selector) ==
    {t \in [1 .. n -> {NoMatch} \cup {[match |-> TRUE, id |-> r] : r \in 0 .. MaxRank}] :
        selector = "" => \A i \in 1 .. n : t[i].match}

\* for (i ...) if (matchesFuzzy(...)) matches.emplace_back(matchId, i);
RECURSIVE CollectMatches(_, _, _)
CollectMatches(t, i, n) ==
    IF i > n THEN <<>>
    ELSE (IF t[i].match THEN <<<<t[i].id, i>>>> ELSE <<>>) \o CollectMatches(t, i + 1, n)

PairLessRankOnly(p, q) == p[1] < q[1]

\* operator< of pair<size_t, size_t>
PairLess(p, q) == p[1] < q[1] \/ (p[1] = q[1] /\ p[2] < q[2])

RECURSIVE InsertPair(_, _)
InsertPair(p, sorted) ==
    IF sorted = <<>> THEN <<p>>
    ELSE IF PairLess(p, Head(sorted)) THEN <<p>> \o sorted
    ELSE <<Head(sorted)>> \o InsertPair(p, Tail(sorted))

\* sort(begin(matches), end(matches))
RECURSIVE SortPairs(_)
SortPairs(ms) ==
    IF ms = <<>> THEN <<>> ELSE InsertPair(Head(ms), SortPairs(Tail(ms)))

\* if (!channelSelector.empty()) sort(begin(matches), end(matches));
SortMatches(ms, selector) == IF selector # "" THEN SortPairs(ms) ELSE ms

\* Lines 93-115, entered when parallelFor has returned.
Select ==
    /\ pc = "decode"
    /\ ParallelForDone
    /\ \E t \in FuzzyTables(hdr.numChannels, channelSelector) :
        LET matches == SortMatches(CollectMatches(t, 1, hdr.numChannels), channelSelector)
        IN  /\ fuzzy' = t
            /\ result' = [returned |-> TRUE,
                          channels |-> [m \in 1 .. Len(matches) |-> channels[matches[m][2]]],
                          layers |-> <<"">>,
                          hasPremultipliedAlpha |-> FALSE]
    /\ pc' = "done"
    /\ UNCHANGED <<file, hostLE, channelSelector, err, hdr, rd, data, channels,
                   writers, row, probe>>
    /\ UNCHANGED sniffVars

-----------------------------------------------------------------------------
\* The inputs of load.

\* Sample i of the payload, i given by its digits: 4 distinct bytes that
\* differ from sample to sample.
PatternSample(i) ==
    <<DigitAt(i, 1), (DigitAt(i, 2) + 1) % 256, (DigitAt(i, 3) + 2) % 256,
      (DigitAt(i, 4) + 16 * DigitAt(i, 5) + 3) % 256>>

PatternBytes(n) ==
    [k \in 1 .. n |-> PatternSample(Digits((k - 1) \div 4))[((k - 1) % 4) + 1]]

\* What follows the scale field: the header's terminator ('\n', '\r', after a
\* blank, or missing) and a payload of need bytes, one less, one more, or none.
Tails(need) ==
    IF need > 0
    THEN {<<LF>> \o PatternBytes(need), <<CR>> \o PatternBytes(need),
          <<SPACE, LF>> \o PatternBytes(need), PatternBytes(need),
          <<LF>> \o PatternBytes(need - 1), <<LF>> \o PatternBytes(need + 1),
          <<LF>>, <<>>}
    ELSE {<<LF>> \o PatternBytes(4), <<>>}

\* The bytes a file of this header needs after the header line.
Need(magic, w, h) ==
    IF NumChannelsOf(magic) > 0 /\ w.k = "val" /\ h.k = "val"
    THEN w.v * h.v * NumChannelsOf(magic) * 4 ELSE 0

\* Fields after a failed extraction are never looked at: they are fixed.
Headers ==
    {f \in [magic : MagicTokens, width : WidthTokens, height : HeightTokens,
            scale : ScaleTokens] :
        /\ (f.magic = "" => f.width = IntEof)
        /\ (f.width.k # "val" => f.height = IntEof)
        /\ (f.height.k # "val" => f.scale = ScaleEof)}

TailsOf(f) ==
    IF f.scale.k \in {"bad", "eof"} THEN {<<>>}
    ELSE Tails(Need(f.magic, f.width, f.height))

Files ==
    UNION {{[magic |-> f.magic, width |-> f.width, height |-> f.height,
             scale |-> f.scale, tail |-> t] : t \in TailsOf(f)} : f \in Headers}

NoFile == [magic |-> "", width |-> IntEof, height |-> IntEof, scale |-> ScaleEof,
           tail |-> <<>>]

NoStream == [bytes |-> <<>>, pos |-> 0, state |-> goodbit]

LoadIdle ==
    /\ file = NoFile /\ hostLE = FALSE /\ channelSelector = ""
    /\ err = NoErr /\ hdr = NoHdr /\ rd = NoRd /\ data = <<>>
    /\ channels = <<>> /\ writers = <<>> /\ row = <<>> /\ fuzzy = <<>>
    /\ result = NoResult

SniffIdle ==
    /\ iStream = NoStream
    /\ pre = [pos |-> 0, state |-> goodbit]
    /\ sniff = NoSniff

Init ==
    /\ pc = "load"
    /\ file \in Files
    /\ hostLE \in BOOLEAN
    /\ channelSelector \in Selectors
    /\ err = NoErr /\ hdr = NoHdr /\ rd = NoRd /\ data = <<>>
    /\ channels = <<>> /\ writers = <<>> /\ row = <<>> /\ fuzzy = <<>>
    /\ result = NoResult
    /\ probe = NoProbe
    /\ SniffIdle

Next ==
    \/ LoadHeader
    \/ ReadPayload
    \/ \E y \in 0 .. MaxHeight - 1 : RowStep(y)
    \/ Select

Spec == Init /\ [][Next]_vars

\* canLoadFile on any stream of up to MaxSniffLen bytes, at any position and
\* with any flags set.
SniffInit ==
    /\ pc = "sniff"
    /\ \E bytes \in SeqsUpTo(SniffChars, MaxSniffLen) :
       \E pos \in 0 .. Len(bytes) :
       \E state \in SUBSET IosFlags :
          /\ iStream = [bytes |-> bytes, pos |-> pos, state |-> state]
          /\ pre = [pos |-> pos, state |-> state]
    /\ sniff = NoSniff
    /\ probe = NoProbe
    /\ LoadIdle

SniffNext == canLoadFile

SniffSpec == SniffInit /\ [][SniffNext]_vars

-----------------------------------------------------------------------------
\* The row body on images too large to enumerate: one (y, x, c) of an image
\* whose header load accepted and whose payload, PatternSample(0),
\* PatternSample(1), ..., was read in full.

LargeDims == {1, 3, 32768, 46341, 65536}

ProbeRows(height) == {y \in {0, height - 1, (2 * height) \div 3 + 1} : y < height}

ProbeCols(width) == {0, width - 1}

NumFloatsWide(size, numChannels) ==
    BigMul(BigMul(Digits(size.x), Digits(size.y)), Digits(numChannels))

\* auto numBytes = numFloats * sizeof(float);  a 64-bit size_t
NumBytesWide(size, numChannels) ==
    Wrap(BigMul(NumFloatsWide(size, numChannels), Digits(4)), 8)

\* float val = data[idx]; on the buffer of numFloats pattern samples
ReadLarge(numFloats, idx) ==
    IF idx >= 0 /\ BigLess(Digits(idx), numFloats)
    THEN {PatternSample(Digits(idx))} ELSE GarbageSamples

\* hdr.numPixels is not read by the row body and is left at 0.
IdxInit ==
    /\ pc = "probe"
    /\ \E m \in {"Pf", "PF", "PF4"}, w \in LargeDims, h \in LargeDims, s \in NonZeroScales :
          hdr = [magic |-> m, size |-> [x |-> w, y |-> h], scale |-> FloatAbs(s),
                 numChannels |-> NumChannelsOf(m),
                 isPfmLittleEndian |-> IsPfmLittleEndian(s), numPixels |-> 0]
    /\ hostLE \in BOOLEAN
    /\ file = NoFile /\ channelSelector = "" /\ err = NoErr /\ rd = NoRd
    /\ data = <<>> /\ channels = <<>> /\ writers = <<>> /\ row = <<>>
    /\ fuzzy = <<>> /\ result = NoResult
    /\ probe = NoProbe
    /\ SniffIdle

\* Lines 76-88 for one y, x and c.
IndexProbe ==
    /\ pc = "probe"
    /\ \E y \in ProbeRows(hdr.size.y), x \in ProbeCols(hdr.size.x), c \in 0 .. hdr.numChannels - 1 :
        LET baseIdx == BaseIdx(y, x, hdr.size.x, hdr.numChannels)
        IN  \E val \in ReadLarge(NumFloatsWide(hdr.size, hdr.numChannels), baseIdx + c) :
              probe' = [done |-> TRUE, y |-> y, x |-> x, c |-> c, baseIdx |-> baseIdx,
                        val |-> Decoded(val, hdr.scale, hostLE, hdr.isPfmLittleEndian),
                        numBytes |-> NumBytesWide(hdr.size, hdr.numChannels)]
    /\ pc' = "probed"
    /\ UNCHANGED <<file, hostLE, channelSelector, err, hdr, rd, data, channels,
                   writers, row, fuzzy, result>>
    /\ UNCHANGED sniffVars

IdxNext == IndexProbe

IdxSpec == IdxInit /\ [][IdxNext]_vars

-----------------------------------------------------------------------------
\* Properties of canLoadFile (checked under SniffSpec).

\* C1, as stated: whatever the stream and the outcome, the read position and
\* the error/eof flags after canLoadFile are those before the call.
C1_PositionAndFlagsAsBefore ==
    sniff.called => (iStream.pos = pre.pos /\ iStream.state = pre.state)

\* C1, amended: whatever the outcome, canLoadFile leaves a seekable stream at
\* offset 0 with no error/eof flag set; position and flags are therefore those
\* before the call when the stream was at offset 0 with no flag set.
C1_RewoundAndCleared ==
    sniff.called =>
        /\ iStream.pos = 0
        /\ iStream.state = goodbit
        /\ (pre.pos = 0 /\ pre.state = goodbit
              => iStream.pos = pre.pos /\ iStream.state = pre.state)

\* A fresh stream too short for the two-byte read: the read set eofbit and
\* failbit, and the call is over.
C1_Witness ==
    /\ sniff.called
    /\ pre.pos = 0 /\ pre.state = goodbit
    /\ sniff.gcount < 2
    /\ ~sniff.result

\* The bytes canLoadFile can read: none from a stream that is not good().
Readable == IF pre.state = goodbit THEN Len(iStream.bytes) - pre.pos ELSE 0

\* C9: canLoadFile answers true iff at least 2 bytes could be read, the first
\* is 'P' and the second is 'F' or 'f'; with fewer than 2 bytes, or any other
\* prefix, it answers false, and it completes without an error on every stream.
C9_TrueIffPfPrefix ==
    /\ sniff.called =>
         (sniff.result <=>
            /\ Readable >= 2
            /\ iStream.bytes[pre.pos + 1] = "P"
            /\ iStream.bytes[pre.pos + 2] \in {"F", "f"})
    /\ pc = "sniff" => ENABLED canLoadFile

\* canLoadFile answered true on the lower-case variant "Pf".
C9_Witness ==
    /\ sniff.called
    /\ sniff.result
    /\ iStream.bytes[pre.pos + 2] = "f"

-----------------------------------------------------------------------------
\* Properties of load (checked under Spec).

LoadOver == pc \in {"failed", "done"}

\* C2, as stated: load returns a result only for a header whose width and
\* height are both positive; a header with width <= 0 or height <= 0 makes
\* load fail with InvalidFormat and return no result.
C2_NonPositiveSizeIsInvalidFormat ==
    /\ result.returned => (hdr.size.x > 0 /\ hdr.size.y > 0)
    /\ (/\ LoadOver
        /\ file.width.k = "val" /\ file.height.k = "val"
        /\ (file.width.v <= 0 \/ file.height.v <= 0))
         => (err.kind = "InvalidFormat" /\ ~result.returned)

\* The bytes of the tail that follow the first '\r' or '\n'.
RECURSIVE PayloadAvail(_)
PayloadAvail(tail) ==
    IF tail = <<>> THEN 0
    ELSE IF Head(tail) \in {CR, LF} THEN Len(tail) - 1
    ELSE PayloadAvail(Tail(tail))

\* load is over or decoding, and the header passed the validation with a
\* positive width and height.
HeaderAccepted ==
    /\ pc \in {"decode", "done", "failed"}
    /\ hdr.magic \in {"Pf", "PF", "PF4"}
    /\ ~BadScale(hdr.scale)
    /\ hdr.size.x > 0 /\ hdr.size.y > 0

\* The bytes of the payload that load took from the stream.
PayloadRead ==
    LET start == Len(file.tail) - PayloadAvail(file.tail)
    IN  IF rd.pos > start THEN rd.pos - start ELSE 0

\* C3, as stated: a payload of fewer than width*height*channelCount*4 bytes
\* after the header terminator makes load fail with TruncatedData carrying the
\* bytes read and the bytes expected, and nothing is returned; with that many
\* bytes or more, the read does not fail.
C3_TruncatedIffPayloadShort ==
    HeaderAccepted =>
        LET expected == hdr.size.x * hdr.size.y * hdr.numChannels * 4
            avail    == PayloadAvail(file.tail)
        IN  /\ avail < expected =>
                 /\ err = TruncatedData(PayloadRead, expected)
                 /\ pc = "failed"
                 /\ ~result.returned
            /\ avail >= expected => err.kind # "TruncatedData"

\* C6: an unknown magic token, or a parsed scale that is zero or not finite,
\* makes load fail with InvalidFormat before any byte of the payload is read
\* and without a result; an accepted header has 1 channel for "Pf", 3 for
\* "PF" and 4 for "PF4".
C6_MagicAndScaleValidated ==
    pc # "load" =>
        IF \/ hdr.magic \notin {"Pf", "PF", "PF4"}
           \/ hdr.scale.cls \in {"nan", "inf"}
           \/ hdr.scale.sgn = 0
        THEN /\ pc = "failed"
             /\ err.kind = "InvalidFormat"
             /\ ~result.returned
             /\ rd.pos = 0 /\ rd.gcount = 0 /\ data = <<>>
        ELSE /\ (hdr.magic = "Pf" => hdr.numChannels = 1)
             /\ (hdr.magic = "PF" => hdr.numChannels = 3)
             /\ (hdr.magic = "PF4" => hdr.numChannels = 4)
             /\ DOMAIN channels = 1 .. hdr.numChannels

\* A three-channel header with an infinite scale was rejected.
C6_Witness ==
    /\ pc = "failed"
    /\ hdr.magic = "PF"
    /\ hdr.scale.cls = "inf"
    /\ err.kind = "InvalidFormat"

\* The payload sample that belongs to (x, y, c), by plain arithmetic.
SampleOf(x, y, c) == data[(y * hdr.size.x + x) * hdr.numChannels + c + 1]

Decoding == pc \in {"decode", "done"}

\* Byte order of the file as its header states it: the scale field's sign.
SourceIsLittleEndian == file.scale.v.sgn < 0

\* C7: the source is little-endian iff the header's scale is negative and a
\* sample's bytes are reversed iff host and source differ: on either host a
\* decoded cell holds the sample's bytes read in the source's byte order, and
\* it is what decoding the opposite-sign, byte-reversed encoding of the same
\* image yields.
C7_ByteOrderFromScaleSign ==
    (pc = "done") =>
        \A c \in 0 .. hdr.numChannels - 1 :
        \A x \in 0 .. hdr.size.x - 1 :
        \A y \in 0 .. hdr.size.y - 1 :
            LET cell == channels[c + 1].at[<<x, hdr.size.y - 1 - y>>]
                raw  == SampleOf(x, y, c)
            IN  /\ hdr.isPfmLittleEndian = SourceIsLittleEndian
                /\ cell.bits = (IF SourceIsLittleEndian THEN Reverse4(raw) ELSE raw)
                /\ cell = Decoded(Reverse4(raw), hdr.scale, hostLE, ~hdr.isPfmLittleEndian)

\* A little-endian file was decoded on a big-endian host.
C7_Witness ==
    /\ pc = "done"
    /\ file.scale.v.sgn < 0
    /\ ~hostLE
    /\ hdr.size.x > 0 /\ hdr.size.y > 1

\* The channels that decoding the payload yields, as a function of the input.
ExpectedChannels ==
    [c \in 1 .. hdr.numChannels |->
        [name |-> ChannelNames(hdr.numChannels)[c],
         at |-> [cell \in Cells(hdr.size) |->
                   Decoded(SampleOf(cell[1], hdr.size.y - 1 - cell[2], c - 1),
                           hdr.scale, hostLE, hdr.isPfmLittleEndian)]]]

RowsOf(ws) == {ws[i] : i \in 1 .. Len(ws)}

\* C5: under every interleaving of the row tasks, no channel cell is written
\* by two row tasks or twice, the sample buffer is never written, and once
\* parallelFor has returned every coordinate of [0,width) x [0,height) of every
\* channel has been written exactly once and the channels hold the same
\* contents whatever the schedule was.
C5_RowsWriteDisjointCells ==
    /\ [](Decoding =>
            /\ \A c \in DOMAIN writers : \A cell \in DOMAIN writers[c] :
                 /\ Len(writers[c][cell]) <= 1
                 /\ Cardinality(RowsOf(writers[c][cell])) <= 1
            /\ ParallelForDone =>
                 /\ \A c \in 1 .. hdr.numChannels :
                    \A x \in 0 .. hdr.size.x - 1 : \A y \in 0 .. hdr.size.y - 1 :
                       Len(writers[c][<<x, y>>]) = 1
                 /\ channels = ExpectedChannels)
    /\ [][Decoding => data' = data]_vars

\* Two row tasks are both part-way through their rows.
C5_Witness ==
    /\ pc = "decode"
    /\ \E y1, y2 \in DOMAIN row :
         /\ y1 # y2
         /\ row[y1] > 0 /\ row[y1] < hdr.size.x * hdr.numChannels
         /\ row[y2] > 0 /\ row[y2] < hdr.size.x * hdr.numChannels

\* The decoded channel a channel of the result was moved from.
SourceIndex(ch) == CHOOSE i \in 1 .. hdr.numChannels : channels[i].name = ch.name

\* C8: with an empty selector the result holds every decoded channel in its
\* decoded order; with a non-empty one it holds exactly the channels
\* matchesFuzzy matched, each once, by ascending rank and, among equal ranks,
\* ascending channel index; a channel that does not match is absent and no
\* error is raised.
C8_ChannelsFilteredAndRanked ==
    pc = "done" =>
        LET out == result.channels
            n   == Len(out)
        IN  /\ err = NoErr
            /\ \A k \in 1 .. n : out[k] = channels[SourceIndex(out[k])]
            /\ channelSelector = "" => out = channels
            /\ channelSelector # "" =>
                 /\ \A i \in 1 .. hdr.numChannels :
                      Cardinality({k \in 1 .. n : SourceIndex(out[k]) = i})
                        = (IF fuzzy[i].match THEN 1 ELSE 0)
                 /\ \A k, l \in 1 .. n : k < l =>
                      LET i == SourceIndex(out[k])
                          j == SourceIndex(out[l])
                      IN  \/ fuzzy[i].id < fuzzy[j].id
                          \/ (fuzzy[i].id = fuzzy[j].id /\ i < j)

\* A selector dropped one channel and kept two of equal rank behind a third
\* of lower rank and higher index.
C8_Witness ==
    /\ pc = "done"
    /\ channelSelector # ""
    /\ \E i \in DOMAIN fuzzy : ~fuzzy[i].match
    /\ \E i, j \in DOMAIN fuzzy :
         i < j /\ fuzzy[i].match /\ fuzzy[j].match /\ fuzzy[i].id = fuzzy[j].id
    /\ \E i, j \in DOMAIN fuzzy :
         i < j /\ fuzzy[i].match /\ fuzzy[j].match /\ fuzzy[i].id > fuzzy[j].id

-----------------------------------------------------------------------------
\* Properties of the index arithmetic (checked under IdxSpec).

\* (y*width + x)*channelCount + c, exactly.
FlatIndex == BigAdd(BaseIdxWide(probe.y, probe.x, hdr.size.x, hdr.numChannels),
                    Digits(probe.c))

\* C4, as stated: in a loaded image, channel c holds at (x, height-1-y) the
\* validated scale times the (byte-swapped if the byte orders differ) sample
\* at flat index (y*width + x)*channelCount + c of the payload.
C4_CellHoldsSampleAtFlatIndex ==
    probe.done =>
        probe.val = Decoded(PatternSample(FlatIndex), hdr.scale, hostLE,
                            hdr.isPfmLittleEndian)

\* C10, as stated: for every accepted header and every y, x and c the int
\* baseIdx + c equals (y*width + x)*channelCount + c and lies in
\* [0, width*height*channelCount), and the byte count of the payload read
\* equals width*height*channelCount*4.
C10_IndexFitsInt ==
    probe.done =>
        /\ probe.baseIdx + probe.c >= 0
        /\ Digits(probe.baseIdx + probe.c) = FlatIndex
        /\ BigLess(Digits(probe.baseIdx + probe.c), NumFloatsWide(hdr.size, hdr.numChannels))
        /\ probe.numBytes = BigMul(NumFloatsWide(hdr.size, hdr.numChannels), Digits(4))

====
